---- MODULE Spec2Model ----
(***************************************************************************)
(* A model of mega_monitor's folder-link engine (mega_client.py):          *)
(*   parse_folder_url, get_nodes, get_mega_links, decrypt_node and         *)
(*   build_paths.                                                          *)
(*                                                                         *)
(* Python values are tagged records.  Text that the code inspects with a   *)
(* regular expression or a split is a sequence of tokens; every token is   *)
(* either made only of characters of [0-9A-Za-z_-] or starts with a        *)
(* character outside that class, and every token holding a '/' starts      *)
(* with it, so matching token by token is matching character by character. *)
(***************************************************************************)
EXTENDS Integers, Sequences, FiniteSets, TLC

VARIABLES
    url, parsed,                                  \* parse_folder_url
    response, fetched,                            \* get_nodes
    env, idx, valid, invalid, processed, linksOut, \* get_mega_links
    nodes, root, built,                           \* build_paths
    node, shared_key, decrypted                   \* decrypt_node

parseVars == <<url, parsed>>
fetchVars == <<response, fetched>>
linkVars  == <<env, idx, valid, invalid, processed, linksOut>>
pathVars  == <<nodes, root, built>>
keyVars   == <<node, shared_key, decrypted>>
vars == <<parseVars, fetchVars, linkVars, pathVars, keyVars>>

(***************************************************************************)
(* Bounds of the model.                                                    *)
(***************************************************************************)
MaxEnv == 3        \* entries of os.environ that get_mega_links iterates
MaxNodes == 3      \* nodes of a listing handed to build_paths

Min(a, b) == IF a <= b THEN a ELSE b

(***************************************************************************)
(* parse_folder_url                                                        *)
(***************************************************************************)
\* Tokens made only of characters of the class [0-9A-Za-z_-].
WordTokens == {"mega", "https", "a", "B"}
\* Tokens that hold a '/' (each starts with it).
SlashTokens == {"/", "/folder/", "/#F!"}

NoCall == [kind |-> "none", exc |-> "", root |-> <<>>, key |-> <<>>]
NoMatch == [matched |-> FALSE, g1 |-> <<>>, g2 |-> <<>>]

\* The last index of the longest run of tokens of `class` that starts at
\* `from` (from - 1 when u[from] is not of the class): a greedy `+`.
RECURSIVE RunEnd(_, _, _)
RunEnd(u, from, class) ==
    IF from <= Len(u) /\ u[from] \in class
    THEN RunEnd(u, from + 1, class)
    ELSE from - 1

\* One attempt of  mega\.[^/]+<sep1>([0-9A-Za-z_-]+)<sep2>([0-9A-Za-z_-]+)
\* anchored at position s.
MatchAt(u, s, sep1, sep2) ==
    LET nonSlash == {u[i] : i \in 1..Len(u)} \ SlashTokens
        tldEnd == RunEnd(u, s + 2, nonSlash)
        g1End == RunEnd(u, tldEnd + 2, WordTokens)
        g2End == RunEnd(u, g1End + 2, WordTokens)
    IN  IF /\ s + 1 <= Len(u)
           /\ u[s] = "mega"
           /\ u[s + 1] = "."
           /\ tldEnd >= s + 2
           /\ tldEnd + 1 <= Len(u)
           /\ u[tldEnd + 1] = sep1
           /\ g1End >= tldEnd + 2
           /\ g1End + 1 <= Len(u)
           /\ u[g1End + 1] = sep2
           /\ g2End >= g1End + 2
        THEN [matched |-> TRUE,
              g1 |-> SubSeq(u, tldEnd + 2, g1End),
              g2 |-> SubSeq(u, g1End + 2, g2End)]
        ELSE NoMatch

\* re.search: the match at the leftmost position that has one, else None.
re_search(u, sep1, sep2) ==
    LET hits == {s \in 1..Len(u) : MatchAt(u, s, sep1, sep2).matched}
    IN  IF hits = {} THEN NoMatch
        ELSE MatchAt(u, CHOOSE s \in hits : \A t \in hits : s <= t, sep1, sep2)

Raise(e) == [kind |-> "raise", exc |-> e, root |-> <<>>, key |-> <<>>]

\* Line 87 evaluates match.group(1) for the debug call before line 88 tests
\* the match, so a None match raises AttributeError there.
parse_folder_url(u) ==
    LET m1 == re_search(u, "/folder/", "#")
        m2 == re_search(u, "/#F!", "!")
    IN  IF m1.matched
        THEN [kind |-> "return", exc |-> "", root |-> m1.g1, key |-> m1.g2]
        ELSE IF ~m2.matched THEN Raise("AttributeError")
        ELSE IF ~m2.matched THEN Raise("ValueError")
        ELSE [kind |-> "return", exc |-> "", root |-> m2.g1, key |-> m2.g2]

\* The URLs handed to parse_folder_url: seven slots, each the pattern's own
\* token or a damaged one, with an optional scheme and an optional tail.
Schemes == {<<>>, <<"https", ":", "/", "/">>}
HostSlots == {<<"mega", ".">>, <<"a", ".">>, <<"mega">>}
TldSlots == {<<"a">>, <<>>, <<"a", ".", "B">>}
SepSlots == {<<"/folder/">>, <<"/#F!">>, <<"/">>}
RootSlots == {<<"a", "B">>, <<>>, <<"%">>}
MidSlots == {<<"#">>, <<"!">>}
KeySlots == {<<"B", "mega">>, <<>>, <<"a", "%", "B">>}
Tails == {<<>>, <<"/", "mega", ".", "a", "/#F!", "B", "!", "a">>}

UrlInputs ==
    {s \o h \o t \o p \o r \o m \o k \o e :
        s \in Schemes, h \in HostSlots, t \in TldSlots, p \in SepSlots,
        r \in RootSlots, m \in MidSlots, k \in KeySlots, e \in Tails}

ParseCall ==
    /\ parsed.kind = "none"
    /\ parsed' = parse_folder_url(url)
    /\ UNCHANGED <<url, fetchVars, linkVars, pathVars, keyVars>>

(***************************************************************************)
(* get_nodes                                                               *)
(*                                                                         *)
(* A decoded JSON value is [t, n, items]: t its Python type, n its number  *)
(* (bool is a subclass of int: True is 1, False is 0), items the elements  *)
(* of a list.  An element of a list is [t, n, e, f]; e and f are the       *)
(* values under the keys "e" and "f" of a dict, of type "missing" when the *)
(* key is absent.                                                          *)
(***************************************************************************)
ErrorCodes == {-2, -3, -4, -9, -11, -14, -16, -17, -18}

\* _ERROR_MAP.get(code, "Unknown error")
_ERROR_MAP(code) ==
    CASE code = -2 -> "EARGS: Invalid arguments"
      [] code = -3 -> "EAGAIN: Try again (temporary)"
      [] code = -4 -> "ERATELIMIT: Rate limited"
      [] code = -9 -> "ENOENT: Folder/file not found (removed or never existed)"
      [] code = -11 -> "EACCESS: Access denied (permission revoked)"
      [] code = -14 -> "EKEY: Invalid decryption key"
      [] code = -16 -> "EBLOCKED: Access blocked/banned"
      [] code = -17 -> "EOVERQUOTA: Quota exceeded"
      [] code = -18 -> "ETEMPUNAVAIL: Temporarily unavailable"
      [] OTHER -> "Unknown error"

\* isinstance(v, int): true of a bool as well.
IsInstanceInt(v) == v.t \in {"int", "bool"}

Missing == [t |-> "missing", n |-> 0, listing |-> <<>>]
Field(t, n, listing) == [t |-> t, n |-> n, listing |-> listing]

MegaAPIError(code, msg) ==
    [kind |-> "raise", exc |-> "MegaAPIError", code |-> code, message |-> msg,
     value |-> <<>>]
Propagate(e) ==
    [kind |-> "raise", exc |-> e, code |-> 0, message |-> "", value |-> <<>>]
NotFetched ==
    [kind |-> "none", exc |-> "", code |-> 0, message |-> "", value |-> <<>>]

\* _raise(code)
_raise(code) == MegaAPIError(code, _ERROR_MAP(code))

\* The classification with the tests of lines 152 and 154 in the other
\* order: a listing under "f" wins over an error code under "e".
ClassifyListingFirst(payload) ==
    IF IsInstanceInt(payload) THEN _raise(payload.n)
    ELSE IF payload.t = "list" THEN
        IF payload.items = <<>> THEN MegaAPIError(-1, "Empty MEGA response")
        ELSE LET first == payload.items[1] IN
            IF IsInstanceInt(first) THEN _raise(first.n)
            ELSE IF first.t = "dict" /\ first.f.t # "missing" THEN
                IF first.f.t # "list"
                THEN MegaAPIError(-1, "Malformed 'f' field")
                ELSE [kind |-> "return", exc |-> "", code |-> 0,
                      message |-> "", value |-> first.f.listing]
            ELSE IF first.t = "dict" /\ IsInstanceInt(first.e)
                THEN _raise(first.e.n)
            ELSE MegaAPIError(-1, "Unexpected MEGA response object")
    ELSE MegaAPIError(-1, "Unexpected MEGA response type")

\* Lines 143-163: the classification of the decoded body.
Classify(payload) ==
    IF IsInstanceInt(payload) THEN _raise(payload.n)
    ELSE IF payload.t = "list" THEN
        IF payload.items = <<>> THEN MegaAPIError(-1, "Empty MEGA response")
        ELSE LET first == payload.items[1] IN
            IF IsInstanceInt(first) THEN _raise(first.n)
            ELSE IF first.t = "dict" /\ IsInstanceInt(first.e)
                THEN _raise(first.e.n)
            ELSE IF first.t = "dict" /\ first.f.t # "missing" THEN
                IF first.f.t # "list"
                THEN MegaAPIError(-1, "Malformed 'f' field")
                ELSE [kind |-> "return", exc |-> "", code |-> 0,
                      message |-> "", value |-> first.f.listing]
            ELSE MegaAPIError(-1, "Unexpected MEGA response object")
    ELSE MegaAPIError(-1, "Unexpected MEGA response type")

\* Lines 126-137: the request, raise_for_status and resp.json(); any failure
\* of these is re-raised as it is.
get_nodes(resp) ==
    IF resp.net # "ok" THEN Propagate(resp.net) ELSE Classify(resp.payload)

\* What the network can hand back.
Codes == ErrorCodes \cup {-1, -99, 0, 7}
Listings == {<<>>, <<"n1">>, <<"n1", "n2">>}
EFields == {Missing, Field("str", 0, <<>>), Field("null", 0, <<>>),
            Field("bool", 1, <<>>)}
            \cup {Field("int", c, <<>>) : c \in {-9, -16, -99, 0}}
FFields == {Missing, Field("str", 0, <<>>), Field("null", 0, <<>>),
            Field("int", -9, <<>>)}
            \cup {Field("list", 0, l) : l \in Listings}
Scalar(t, n) == [t |-> t, n |-> n, e |-> Missing, f |-> Missing]
Elements ==
    {Scalar("int", c) : c \in Codes}
    \cup {Scalar("bool", b) : b \in {0, 1}}
    \cup {Scalar(t, 0) : t \in {"str", "null", "float", "list"}}
    \cup {[t |-> "dict", n |-> 0, e |-> e, f |-> f] : e \in EFields, f \in FFields}
Value(t, n, items) == [t |-> t, n |-> n, items |-> items]
Payloads ==
    {Value("int", c, <<>>) : c \in Codes}
    \cup {Value("bool", b, <<>>) : b \in {0, 1}}
    \cup {Value(t, 0, <<>>) : t \in {"str", "null", "float", "dict"}}
    \cup {Value("list", 0, <<>>)}
    \cup {Value("list", 0, <<x>>) : x \in Elements}
    \cup {Value("list", 0, <<x, Scalar("int", -9)>>) : x \in Elements}
NetFailures == {"ConnectionError", "Timeout", "HTTPError", "JSONDecodeError"}
Responses ==
    {[net |-> "ok", payload |-> p] : p \in Payloads}
    \cup {[net |-> f, payload |-> Value("null", 0, <<>>)] : f \in NetFailures}

FetchCall ==
    /\ fetched.kind = "none"
    /\ fetched' = get_nodes(response)
    /\ UNCHANGED <<response, parseVars, linkVars, pathVars, keyVars>>

(***************************************************************************)
(* get_mega_links                                                          *)
(*                                                                         *)
(* os.environ is a sequence of [key, url] with distinct keys, in the order *)
(* items() yields them; a key is a sequence of tokens, "MEGA_LINK_" one of *)
(* them.  Each step handles one entry; the response of the listing call is *)
(* drawn when the entry is handled.                                        *)
(***************************************************************************)
EnvKeys == {<<"MEGA_LINK_", "a">>, <<"MEGA_LINK_", "b">>, <<"MEGA_LINK_", "c">>,
            <<"TIMEZONE">>}
LinkUrls == {<<"https", ":", "/", "/", "mega", ".", "a", "/folder/", "a", "#", "B">>,
             <<"mega", ".", "a", "/#F!", "B", "!", "a">>,
             <<"https", ":", "/", "/", "a", ".", "B", "/", "a">>}
LinkResponses ==
    {[net |-> "ok", payload |-> p] :
        p \in {Value("int", -9, <<>>),
               Value("list", 0, <<[t |-> "dict", n |-> 0, e |-> Missing,
                                   f |-> Field("list", 0, <<"n1">>)]>>)}}
    \cup {[net |-> f, payload |-> Value("null", 0, <<>>)] :
            f \in {"HTTPError", "JSONDecodeError"}}

\* key.startswith("MEGA_LINK_")
StartsWithPrefix(key) == Len(key) >= 1 /\ key[1] = "MEGA_LINK_"
\* key.removeprefix("MEGA_LINK_")
RemovePrefix(key) == IF StartsWithPrefix(key) THEN Tail(key) ELSE key

\* The classes that derive from Exception: what `except Exception` catches.
ExceptionClasses ==
    {"MegaAPIError", "ValueError", "AttributeError", "ConnectionError",
     "Timeout", "HTTPError", "JSONDecodeError"}
\* A handler that names the expected classes in place of Exception.
CaughtByExceptNarrow(exc) ==
    exc \in {"MegaAPIError", "ValueError", "HTTPError", "ConnectionError"}
CaughtByExcept(exc) == exc \in ExceptionClasses

\* str(e) of an exception that is not a MegaAPIError.
ExcText(exc) ==
    IF exc = "AttributeError"
    THEN "'NoneType' object has no attribute 'group'"
    ELSE exc

InvalidLinkReport(name, u, code, reason) ==
    [name |-> name, url |-> u, code |-> code, reason |-> reason]

\* Lines 61-70: the try block of one entry.  What it does to the two lists,
\* or "propagate" when no except clause catches what was raised.
TryLink(name, u, resp) ==
    LET p == parse_folder_url(u)
        g == get_nodes(resp)
    IN  IF p.kind = "raise" THEN
            IF CaughtByExcept(p.exc)
            THEN [to |-> "invalid", report |-> InvalidLinkReport(name, u, -1, ExcText(p.exc))]
            ELSE [to |-> "propagate", report |-> InvalidLinkReport(name, u, 0, p.exc)]
        ELSE IF g.kind = "return"
            THEN [to |-> "valid", report |-> InvalidLinkReport(name, u, 0, "")]
        ELSE IF g.exc = "MegaAPIError"
            THEN [to |-> "invalid", report |-> InvalidLinkReport(name, u, g.code, g.message)]
        ELSE IF CaughtByExcept(g.exc)
            THEN [to |-> "invalid", report |-> InvalidLinkReport(name, u, -1, ExcText(g.exc))]
        ELSE [to |-> "propagate", report |-> InvalidLinkReport(name, u, 0, g.exc)]

\* What the caller of get_mega_links gets: the returned list, or the raised
\* error with the reports it carries.
Running == [kind |-> "running", exc |-> "", valid |-> <<>>, reports |-> <<>>]

RECURSIVE EnvsOfLen(_)
EnvsOfLen(n) ==
    IF n = 0 THEN {<<>>}
    ELSE {Append(e, [key |-> k, url |-> u]) :
            e \in EnvsOfLen(n - 1), k \in EnvKeys, u \in LinkUrls}
DistinctKeys(e) == \A i, j \in 1..Len(e) : e[i].key = e[j].key => i = j
\* A value of a variable that is no link is not a URL; it is never parsed.
Environments ==
    {e \in UNION {EnvsOfLen(n) : n \in 0..MaxEnv} :
        /\ DistinctKeys(e)
        /\ \A i \in 1..Len(e) :
              ~StartsWithPrefix(e[i].key) =>
                  e[i].url = <<"https", ":", "/", "/", "a", ".", "B", "/", "a">>}

\* Lines 58-59: an entry that is no link.
SkipEntry ==
    /\ linksOut.kind = "running"
    /\ idx <= Len(env)
    /\ ~StartsWithPrefix(env[idx].key)
    /\ idx' = idx + 1
    /\ UNCHANGED <<env, valid, invalid, processed, linksOut>>
    /\ UNCHANGED <<parseVars, fetchVars, pathVars, keyVars>>

\* Lines 60-70: one link.
HandleLink ==
    /\ linksOut.kind = "running"
    /\ idx <= Len(env)
    /\ StartsWithPrefix(env[idx].key)
    /\ \E resp \in LinkResponses :
        LET name == RemovePrefix(env[idx].key)
            r == TryLink(name, env[idx].url, resp)
        IN  /\ processed' = Append(processed,
                    [name |-> name, url |-> env[idx].url, resp |-> resp])
            /\ valid' = IF r.to = "valid"
                        THEN Append(valid, [name |-> name, url |-> env[idx].url])
                        ELSE valid
            /\ invalid' = IF r.to = "invalid"
                          THEN Append(invalid, r.report)
                          ELSE invalid
            /\ linksOut' = IF r.to = "propagate"
                           THEN [kind |-> "raise", exc |-> r.report.reason,
                                 valid |-> <<>>, reports |-> <<>>]
                           ELSE linksOut
    /\ idx' = idx + 1
    /\ UNCHANGED <<env, parseVars, fetchVars, pathVars, keyVars>>

\* The check of line 72 moved into the loop: raised at the first entry
\* reached with no valid link so far.
RaiseNoValidLinksEarly ==
    /\ linksOut.kind = "running"
    /\ valid = <<>>
    /\ linksOut' = [kind |-> "raise", exc |-> "NoValidLinksError",
                    valid |-> <<>>, reports |-> invalid]
    /\ UNCHANGED <<env, idx, valid, invalid, processed>>
    /\ UNCHANGED <<parseVars, fetchVars, pathVars, keyVars>>

\* Lines 72-73.
RaiseNoValidLinks ==
    /\ linksOut.kind = "running"
    /\ idx > Len(env)
    /\ valid = <<>>
    /\ linksOut' = [kind |-> "raise", exc |-> "NoValidLinksError",
                    valid |-> <<>>, reports |-> invalid]
    /\ UNCHANGED <<env, idx, valid, invalid, processed>>
    /\ UNCHANGED <<parseVars, fetchVars, pathVars, keyVars>>

\* Line 75.
ReturnValid ==
    /\ linksOut.kind = "running"
    /\ idx > Len(env)
    /\ valid # <<>>
    /\ linksOut' = [kind |-> "return", exc |-> "", valid |-> valid,
                    reports |-> <<>>]
    /\ UNCHANGED <<env, idx, valid, invalid, processed>>
    /\ UNCHANGED <<parseVars, fetchVars, pathVars, keyVars>>

(***************************************************************************)
(* build_paths                                                             *)
(*                                                                         *)
(* A name is a Python value: a str, or None when the attributes hold no    *)
(* "n" (decrypt_node's attrs.get("n")).                                    *)
(***************************************************************************)
PyStr(s) == [t |-> "str", s |-> s]
PyNone == [t |-> "none", s |-> ""]
\* bool(v)
Truthy(v) == v.t = "str" /\ v.s # ""
\* The text an f-string puts for v.
Format(v) == IF v.t = "none" THEN "None" ELSE v.s

\* CPython's recursion limit, scaled to the listings of the model: a chain
\* of parents that ends takes at most MaxNodes + 1 frames of resolve.
RecursionLimit == MaxNodes + 2

\* lookup = {n["h"]: n for n in nodes}: the last node of a handle wins.
Lookup(ns) ==
    [h \in {ns[i].h : i \in 1..Len(ns)} |->
        ns[CHOOSE i \in 1..Len(ns) :
              ns[i].h = h /\ \A j \in 1..Len(ns) : ns[j].h = h => j <= i]]

Resolved(v) == [err |-> FALSE, v |-> v]
RecursionError == [err |-> TRUE, v |-> PyNone]

\* resolve joining the node's name in front of its parent's path.
RECURSIVE resolve_child_first(_, _, _, _)
resolve_child_first(lookup, r, h, depth) ==
    IF depth > RecursionLimit THEN RecursionError
    ELSE IF h = r \/ h \notin DOMAIN lookup THEN Resolved(PyStr(""))
    ELSE LET parent == resolve_child_first(lookup, r, lookup[h].p, depth + 1)
         IN  IF parent.err THEN parent
             ELSE IF Truthy(parent.v)
                 THEN Resolved(PyStr(Format(lookup[h].name) \o "/"
                                     \o Format(parent.v)))
                 ELSE Resolved(lookup[h].name)

\* Lines 184-188; depth is the number of frames of resolve on the stack.
RECURSIVE resolve(_, _, _, _)
resolve(lookup, r, h, depth) ==
    IF depth > RecursionLimit THEN RecursionError
    ELSE IF h = r \/ h \notin DOMAIN lookup THEN Resolved(PyStr(""))
    ELSE LET parent == resolve(lookup, r, lookup[h].p, depth + 1)
         IN  IF parent.err THEN parent
             ELSE IF Truthy(parent.v)
                 THEN Resolved(PyStr(Format(parent.v) \o "/"
                                     \o Format(lookup[h].name)))
                 ELSE Resolved(lookup[h].name)

Entry(n, path) == [h |-> n.h, path |-> path, type |-> n.type, size |-> n.size]

\* Lines 190-194: the comprehension, node by node.
RECURSIVE Collect(_, _, _, _)
Collect(ns, lookup, r, i) ==
    IF i > Len(ns) THEN [kind |-> "return", entries |-> <<>>]
    ELSE LET path == resolve(lookup, r, ns[i].h, 1)
             rest == Collect(ns, lookup, r, i + 1)
         IN  IF path.err THEN [kind |-> "RecursionError", entries |-> <<>>]
             ELSE IF rest.kind # "return" THEN rest
             ELSE IF Truthy(path.v)
                 THEN [kind |-> "return",
                       entries |-> <<Entry(ns[i], path.v.s)>> \o rest.entries]
                 ELSE rest

build_paths(ns, r) == Collect(ns, Lookup(ns), r, 1)

NotBuilt == [kind |-> "none", entries |-> <<>>]

\* The listings handed to build_paths.  Handles are unique, as the service
\* sends them.  resolve never reads the root's own node, so its parent and
\* name are fixed; "X" is a handle no node of the listing has.
RootHandle == "R"
Handles == {"R", "A", "B", "C"}
Parents == Handles \cup {"X"}
Names == {PyStr("a"), PyStr("b"), PyStr(""), PyNone}
NodeOf(h, p, name) ==
    [h |-> h, p |-> p, name |-> name,
     type |-> IF h \in {"R", "A"} THEN 1 ELSE 0,
     size |-> CASE h = "B" -> 5 [] h = "C" -> 7 [] OTHER -> 0]
BuildCall ==
    /\ built.kind = "none"
    /\ built' = build_paths(nodes, root)
    /\ UNCHANGED <<nodes, root, parseVars, fetchVars, linkVars, keyVars>>

(***************************************************************************)
(* decrypt_node                                                            *)
(*                                                                         *)
(* A character of the key field is ':' or a character of the URL-safe      *)
(* base64 alphabet, held as the six bits it stands for.  A 32-bit word is  *)
(* its four bytes, most significant first.                                 *)
(***************************************************************************)
B64(v) == [c |-> "b64", v |-> v]
ColonChar == [c |-> ":", v |-> 0]

RECURSIVE Pow2(_)
Pow2(n) == IF n = 0 THEN 1 ELSE 2 * Pow2(n - 1)

\* k.split(":")[-1]: what follows the last ':'.
RECURSIVE LastSegment(_)
LastSegment(k) ==
    IF k = <<>> THEN <<>>
    ELSE IF k[Len(k)] = ColonChar THEN <<>>
    ELSE Append(LastSegment(SubSeq(k, 1, Len(k) - 1)), k[Len(k)])

\* Bit i (0 the first) of the bits the characters of data stand for.
StreamBit(data, i) == (data[(i \div 6) + 1].v \div Pow2(5 - (i % 6))) % 2

RECURSIVE ByteFrom(_, _, _)
ByteFrom(data, first, n) ==
    IF n = 0 THEN 0
    ELSE (2 * ByteFrom(data, first, n - 1)) + StreamBit(data, first + n - 1)

\* base64_url_decode: pads to a multiple of four and decodes; a length of
\* one more than a multiple of four is binascii.Error.
base64_url_decode(data) ==
    IF Len(data) % 4 = 1 THEN [err |-> TRUE, bytes |-> <<>>]
    ELSE [err |-> FALSE,
          bytes |-> [j \in 1..((6 * Len(data)) \div 8) |->
                        ByteFrom(data, 8 * (j - 1), 8)]]

\* int.from_bytes(chunk, "big") of a chunk of up to four bytes, as a word.
WordOf(chunk) == [i \in 1..4 |->
                    IF i <= 4 - Len(chunk) THEN 0 ELSE chunk[i - (4 - Len(chunk))]]

\* base64_to_a32: one word per chunk of four decoded bytes, the last chunk
\* possibly shorter.
base64_to_a32(data) ==
    LET raw == base64_url_decode(data) IN
    [err |-> raw.err,
     words |-> [w \in 1..((Len(raw.bytes) + 3) \div 4) |->
                  WordOf(SubSeq(raw.bytes, 4 * (w - 1) + 1,
                                Min(4 * w, Len(raw.bytes))))]]

RECURSIVE XorBits(_, _, _)
XorBits(a, b, n) ==
    IF n = 0 THEN 0
    ELSE (2 * XorBits(a \div 2, b \div 2, n - 1)) + (((a % 2) + (b % 2)) % 2)

\* x ^ y on two words.
XorWord(x, y) == [i \in 1..4 |-> XorBits(x[i], y[i], 8)]

\* The key lengths AES.new takes, in words.
AesKeyWords == {4, 6, 8}

\* decrypt_key.  The block cipher of the library is stood for by a keyed
\* permutation of the 16-byte block: each word xor the key's word of that
\* place.  A key of another length, or data that is no whole number of
\* blocks, is ValueError.
decrypt_key(cipher, key) ==
    IF Len(key) \notin AesKeyWords \/ Len(cipher) % 4 # 0
    THEN [err |-> TRUE, words |-> <<>>]
    ELSE [err |-> FALSE,
          words |-> [i \in 1..Len(cipher) |->
                        XorWord(cipher[i], key[((i - 1) % 4) + 1])]]

\* The fold taking the neighbouring word in place of the word four on.
FoldNeighbour(key) == [i \in 1..4 |-> XorWord(key[i], key[i + 1])]

\* Line 170: tuple(key[i] ^ key[i + 4] for i in range(4)).
Fold(key) == [i \in 1..4 |-> XorWord(key[i], key[i + 4])]

\* Line 116: key[:4].
AttrKey(key) == SubSeq(key, 1, Min(4, Len(key)))

NodeError(e) ==
    [kind |-> "raise", exc |-> e, aes_key |-> <<>>, used |-> FALSE,
     name |-> PyNone]
NotDecrypted ==
    [kind |-> "none", exc |-> "", aes_key |-> <<>>, used |-> FALSE,
     name |-> PyNone]

\* decrypt_node, with decrypt_attr up to the cipher it builds.  attr is what
\* the attribute blob comes to: "binascii.Error" when its base64 text does
\* not decode (line 171, before decrypt_attr is entered), "ValueError" when
\* decrypting it or parsing the JSON fails, else the name it holds.
decrypt_node(n, sk, attr) ==
    LET enc == base64_to_a32(LastSegment(n.k))
        unwrapped == decrypt_key(enc.words, sk)
        key == IF n.t = 0 THEN Fold(unwrapped.words) ELSE unwrapped.words
    IN  IF enc.err THEN NodeError("binascii.Error")
        ELSE IF unwrapped.err THEN NodeError("ValueError")
        ELSE IF n.t = 0 /\ Len(unwrapped.words) < 8 THEN NodeError("IndexError")
        ELSE IF attr.err = "binascii.Error" THEN NodeError("binascii.Error")
        ELSE IF Len(AttrKey(key)) \notin AesKeyWords THEN NodeError("ValueError")
        ELSE IF attr.err # ""
            THEN [kind |-> "raise", exc |-> attr.err,
                  aes_key |-> AttrKey(key), used |-> TRUE, name |-> PyNone]
        ELSE [kind |-> "return", exc |-> "", aes_key |-> AttrKey(key),
              used |-> TRUE, name |-> attr.name]

\* The key fields, node types and folder keys handed to decrypt_node.
SegmentLengths == {0, 11, 20, 21, 22, 27, 43, 64}
Sextet(pattern, i) ==
    CASE pattern = 0 -> 0
      [] pattern = 1 -> 63
      [] pattern = 2 -> (7 * i) % 64
      [] OTHER -> (i * i + 3) % 64
Segments ==
    {[i \in 1..n |-> B64(Sextet(pt, i))] : n \in SegmentLengths, pt \in 0..3}
OwnerPrefixes ==
    {<<>>,
     <<B64(1), B64(2), ColonChar>>,
     <<B64(1), ColonChar, B64(63), B64(0), B64(5), ColonChar>>}
KeyFields == {pre \o seg : pre \in OwnerPrefixes, seg \in Segments}
NodeTypes == {0, 1, 2}
FolderKeys ==
    {<<<<0, 0, 0, 0>>, <<0, 0, 0, 0>>, <<0, 0, 0, 0>>, <<0, 0, 0, 0>>>>,
     <<<<255, 1, 128, 7>>, <<18, 52, 86, 120>>, <<0, 255, 0, 255>>,
       <<170, 85, 170, 85>>>>,
     <<<<1, 2, 3, 4>>, <<5, 6, 7, 8>>, <<9, 10, 11, 12>>>>}
AttrOutcomes ==
    {[err |-> "", name |-> PyStr("a")], [err |-> "", name |-> PyNone],
     [err |-> "binascii.Error", name |-> PyNone],
     [err |-> "ValueError", name |-> PyNone]}

DecryptCall ==
    /\ decrypted.kind = "none"
    /\ \E attr \in AttrOutcomes : decrypted' = decrypt_node(node, shared_key, attr)
    /\ UNCHANGED <<node, shared_key, parseVars, fetchVars, linkVars, pathVars>>

(***************************************************************************)
(* Specifications: one per operation; the variables of the other           *)
(* operations keep their idle values.                                      *)
(***************************************************************************)
InitParse ==
    /\ url \in UrlInputs
    /\ parsed = NoCall
    /\ response = [net |-> "ok", payload |-> Value("null", 0, <<>>)]
    /\ fetched = NotFetched
    /\ env = <<>>
    /\ idx = 1
    /\ valid = <<>>
    /\ invalid = <<>>
    /\ processed = <<>>
    /\ linksOut = Running
    /\ nodes = <<>>
    /\ root = RootHandle
    /\ built = NotBuilt
    /\ node = [k |-> <<>>, t |-> 1]
    /\ shared_key = <<>>
    /\ decrypted = NotDecrypted

NextParse == ParseCall

SpecParse == InitParse /\ [][NextParse]_vars

InitNodes ==
    /\ url = <<>>
    /\ parsed = NoCall
    /\ response \in Responses
    /\ fetched = NotFetched
    /\ env = <<>>
    /\ idx = 1
    /\ valid = <<>>
    /\ invalid = <<>>
    /\ processed = <<>>
    /\ linksOut = Running
    /\ nodes = <<>>
    /\ root = RootHandle
    /\ built = NotBuilt
    /\ node = [k |-> <<>>, t |-> 1]
    /\ shared_key = <<>>
    /\ decrypted = NotDecrypted

NextNodes == FetchCall

SpecNodes == InitNodes /\ [][NextNodes]_vars

InitLinks ==
    /\ url = <<>>
    /\ parsed = NoCall
    /\ response = [net |-> "ok", payload |-> Value("null", 0, <<>>)]
    /\ fetched = NotFetched
    /\ env \in Environments
    /\ idx = 1
    /\ valid = <<>>
    /\ invalid = <<>>
    /\ processed = <<>>
    /\ linksOut = Running
    /\ nodes = <<>>
    /\ root = RootHandle
    /\ built = NotBuilt
    /\ node = [k |-> <<>>, t |-> 1]
    /\ shared_key = <<>>
    /\ decrypted = NotDecrypted

NextLinks == SkipEntry \/ HandleLink \/ RaiseNoValidLinks \/ ReturnValid

SpecLinks == InitLinks /\ [][NextLinks]_vars

InitPaths ==
    /\ url = <<>>
    /\ parsed = NoCall
    /\ response = [net |-> "ok", payload |-> Value("null", 0, <<>>)]
    /\ fetched = NotFetched
    /\ env = <<>>
    /\ idx = 1
    /\ valid = <<>>
    /\ invalid = <<>>
    /\ processed = <<>>
    /\ linksOut = Running
    /\ root = RootHandle
    /\ built = NotBuilt
    /\ \E n \in 0..MaxNodes :
        \E hs \in [1..n -> Handles] :
          /\ \A i, j \in 1..n : hs[i] = hs[j] => i = j
          /\ \E ps \in [1..n -> Parents] :
              /\ \A i \in 1..n : hs[i] = RootHandle => ps[i] = "X"
              /\ \E nm \in [1..n -> Names] :
                  /\ \A i \in 1..n : hs[i] = RootHandle => nm[i] = PyStr("a")
                  /\ nodes = [i \in 1..n |-> NodeOf(hs[i], ps[i], nm[i])]
    /\ node = [k |-> <<>>, t |-> 1]
    /\ shared_key = <<>>
    /\ decrypted = NotDecrypted

NextPaths == BuildCall

SpecPaths == InitPaths /\ [][NextPaths]_vars

InitKey ==
    /\ url = <<>>
    /\ parsed = NoCall
    /\ response = [net |-> "ok", payload |-> Value("null", 0, <<>>)]
    /\ fetched = NotFetched
    /\ env = <<>>
    /\ idx = 1
    /\ valid = <<>>
    /\ invalid = <<>>
    /\ processed = <<>>
    /\ linksOut = Running
    /\ nodes = <<>>
    /\ root = RootHandle
    /\ built = NotBuilt
    /\ node \in {[k |-> k, t |-> t] : k \in KeyFields, t \in NodeTypes}
    /\ shared_key \in FolderKeys
    /\ decrypted = NotDecrypted

NextKey == DecryptCall

SpecKey == InitKey /\ [][NextKey]_vars

(***************************************************************************)
(* Claims about get_mega_links (SpecLinks).                                *)
(***************************************************************************)
\* The links among the first n entries of os.environ.
LinkCount(n) == Cardinality({i \in 1..n : StartsWithPrefix(env[i].key)})
Finished == linksOut.kind # "running"
CountIn(list, name) == Cardinality({i \in 1..Len(list) : list[i].name = name})
\* What handling processed[i] came to, from the two calls the loop makes.
ParseOk(i) == parse_folder_url(processed[i].url).kind = "return"
Fetch(i) == get_nodes(processed[i].resp)
LinkOk(i) == ParseOk(i) /\ Fetch(i).kind = "return"
ApiFailure(i) == ParseOk(i) /\ Fetch(i).kind = "raise" /\ Fetch(i).exc = "MegaAPIError"
ReportsOf(name) == {j \in 1..Len(invalid) : invalid[j].name = name}

\* C1: one link's failure never aborts the batch.  Whatever each link comes
\* to (parse failure, MegaAPIError, transport or HTTP exception, any other
\* exception, success), no exception of a link leaves get_mega_links, every
\* link met so far has been processed, and each processed link is in exactly
\* one of the two lists: valid when parse and get_nodes both succeeded, else
\* invalid with one report whose code is the API error's code for a
\* MegaAPIError and -1 for every other failure; once the loop is over,
\* len(valid) + len(invalid) is the number of configured links.
C1_NoLinkAbortsBatch ==
    /\ linksOut.kind = "raise" => linksOut.exc = "NoValidLinksError"
    /\ Len(processed) = LinkCount(idx - 1)
    /\ Len(valid) + Len(invalid) = Len(processed)
    /\ \A i \in 1..Len(processed) :
        LET name == processed[i].name IN
        /\ CountIn(valid, name) + CountIn(invalid, name) = 1
        /\ CountIn(valid, name) = 1 <=> LinkOk(i)
        /\ \A j \in ReportsOf(name) :
            /\ invalid[j].url = processed[i].url
            /\ invalid[j].code = IF ApiFailure(i) THEN Fetch(i).code ELSE -1
    /\ Finished =>
        /\ idx = Len(env) + 1
        /\ Len(valid) + Len(invalid) = LinkCount(Len(env))

\* C1's case: a batch that is over, in which the first link failed to
\* parse, the second got an API error, and the third, handled after both
\* failures, is valid.
C1_Witness ==
    /\ linksOut.kind = "return"
    /\ Len(processed) = 3
    /\ ~ParseOk(1)
    /\ ApiFailure(2) /\ Fetch(2).code = -9
    /\ LinkOk(3)
    /\ Len(invalid) = 2 /\ invalid[1].code = -1 /\ invalid[2].code = -9
    /\ Len(valid) = 1

\* C2: NoValidLinksError is raised if and only if the valid list is empty
\* once every configured link was processed (zero links included); its
\* reports are exactly the reports collected in that pass, one per failed
\* link, in the order the links were processed; it is never raised before
\* the last link was processed.
C2_NoValidLinksExactly ==
    /\ Finished =>
        (linksOut.kind = "raise" /\ linksOut.exc = "NoValidLinksError"
            <=> valid = <<>>)
    /\ linksOut.kind = "return" => valid # <<>>
    /\ linksOut.kind = "raise" /\ linksOut.exc = "NoValidLinksError" =>
        /\ idx = Len(env) + 1
        /\ Len(processed) = LinkCount(Len(env))
        /\ linksOut.reports = invalid
        /\ Len(linksOut.reports) = Len(processed)
        /\ \A i \in 1..Len(processed) :
            /\ ~LinkOk(i)
            /\ linksOut.reports[i].name = processed[i].name
            /\ linksOut.reports[i].url = processed[i].url
            /\ linksOut.reports[i].code =
                  IF ApiFailure(i) THEN Fetch(i).code ELSE -1

\* C2's case: the error raised after two links failed for different
\* reasons, with the two reports in processing order.
C2_Witness ==
    /\ linksOut.kind = "raise" /\ linksOut.exc = "NoValidLinksError"
    /\ Len(linksOut.reports) = 2
    /\ linksOut.reports[1].code = -9
    /\ linksOut.reports[2].code = -1
    /\ linksOut.reports[1].name # linksOut.reports[2].name

\* C3: when at least one link is valid, what get_mega_links hands back holds
\* both lists: the reports of the invalid links collected in the pass reach
\* the caller in the returned value (2 valid links and one link of code -9:
\* valid of length 2, invalid of length 1 with code -9).
C3_ReturnCarriesInvalid ==
    linksOut.kind = "return" =>
        /\ linksOut.valid = valid
        /\ linksOut.reports = invalid

(***************************************************************************)
(* Claims about parse_folder_url (SpecParse).                              *)
(***************************************************************************)
AllIn(u, from, to, class) == \A i \in from..to : u[i] \in class
\* The splits of u that the pattern  mega\.[^/]+<sep1>(root)<sep2>(key)
\* allows: <<a, b, c>> with the host's tail ending at a, root at b, key at c.
Splits(u, sep1, sep2) ==
    {t \in (1..Len(u)) \X (1..Len(u)) \X (1..Len(u)) :
        \E s \in 1..Len(u) :
            /\ s + 2 <= t[1] /\ t[1] + 2 <= t[2] /\ t[2] + 2 <= t[3]
            /\ u[s] = "mega" /\ u[s + 1] = "."
            /\ \A i \in (s + 2)..t[1] : u[i] \notin SlashTokens
            /\ u[t[1] + 1] = sep1
            /\ AllIn(u, t[1] + 2, t[2], WordTokens)
            /\ u[t[2] + 1] = sep2
            /\ AllIn(u, t[2] + 2, t[3], WordTokens)}
InGrammar(u, sep1, sep2) == Splits(u, sep1, sep2) # {}

\* C4: parse_folder_url fails with ValueError 'Invalid MEGA folder URL' for
\* every URL that matches neither  /folder/<root>#<key>  nor the legacy
\* /#F!<root>!<key>, and returns the root and key of the matching pattern
\* otherwise; a URL that matches neither raises nothing else.
C4_FormatErrorOnMismatch ==
    parsed.kind # "none" =>
        IF InGrammar(url, "/folder/", "#") \/ InGrammar(url, "/#F!", "!")
        THEN parsed.kind = "return"
        ELSE parsed.kind = "raise" /\ parsed.exc = "ValueError"

(***************************************************************************)
(* Claims about get_nodes (SpecNodes).                                     *)
(***************************************************************************)
\* An integer of the decoded body: an instance of int, which a bool is.
PyInt(v) == v.t \in {"int", "bool"}
FixedStrings ==
    {<<-2, "EARGS: Invalid arguments">>,
     <<-3, "EAGAIN: Try again (temporary)">>,
     <<-4, "ERATELIMIT: Rate limited">>,
     <<-9, "ENOENT: Folder/file not found (removed or never existed)">>,
     <<-11, "EACCESS: Access denied (permission revoked)">>,
     <<-14, "EKEY: Invalid decryption key">>,
     <<-16, "EBLOCKED: Access blocked/banned">>,
     <<-17, "EOVERQUOTA: Quota exceeded">>,
     <<-18, "ETEMPUNAVAIL: Temporarily unavailable">>}
TableString(c) ==
    IF \E e \in FixedStrings : e[1] = c
    THEN (CHOOSE e \in FixedStrings : e[1] = c)[2]
    ELSE "Unknown error"
ApiCode(c) ==
    fetched.kind = "raise" /\ fetched.exc = "MegaAPIError" /\ fetched.code = c
IntCoded(c) == ApiCode(c) /\ fetched.message = TableString(c)
ListingUnderF(p) ==
    /\ p.t = "list" /\ p.items # <<>>
    /\ p.items[1].t = "dict"
    /\ ~PyInt(p.items[1].e)
    /\ p.items[1].f.t = "list"

\* C5: get_nodes classifies the decoded body in this order: a bare negative
\* integer raises that code; an empty list raises -1; a list whose first
\* element is a bare integer raises that code; a first element that is an
\* object with an integer "e" raises e, whether or not it has an "f"; a
\* first element that is an object with an "f" returns that value unchanged
\* when it is a list and raises -1 when it is not; any other first element
\* raises -1; a body that is neither integer nor list raises -1.  The
\* message of an integer code is the table's string for -2, -3, -4, -9,
\* -11, -14, -16, -17, -18 and "Unknown error" otherwise.  get_nodes
\* returns a value only when "f" is a list.
C5_BodyClassification ==
    fetched.kind # "none" /\ response.net = "ok" =>
        LET p == response.payload IN
        /\ PyInt(p) /\ p.n < 0 => IntCoded(p.n)
        /\ p.t = "list" /\ p.items = <<>> => ApiCode(-1)
        /\ p.t = "list" /\ p.items # <<>> =>
            LET first == p.items[1] IN
            /\ PyInt(first) => IntCoded(first.n)
            /\ first.t = "dict" /\ PyInt(first.e) => IntCoded(first.e.n)
            /\ first.t = "dict" /\ ~PyInt(first.e) /\ first.f.t = "list" =>
                fetched.kind = "return" /\ fetched.value = first.f.listing
            /\ first.t = "dict" /\ ~PyInt(first.e)
                    /\ first.f.t \notin {"missing", "list"} => ApiCode(-1)
            /\ first.t = "dict" /\ ~PyInt(first.e) /\ first.f.t = "missing" =>
                ApiCode(-1)
            /\ ~PyInt(first) /\ first.t # "dict" => ApiCode(-1)
        /\ ~PyInt(p) /\ p.t # "list" => ApiCode(-1)
        /\ fetched.kind = "return" <=> ListingUnderF(p)

\* C5's case: a first element with both an integer "e" and a listing under
\* "f", classified by "e" with the table's string.
C5_Witness ==
    /\ fetched.kind = "raise" /\ fetched.code = -9
    /\ fetched.message = "ENOENT: Folder/file not found (removed or never existed)"
    /\ response.payload.t = "list" /\ response.payload.items # <<>>
    /\ response.payload.items[1].t = "dict"
    /\ response.payload.items[1].e.t = "int"
    /\ response.payload.items[1].f.t = "list"
    /\ response.payload.items[1].f.listing # <<>>

(***************************************************************************)
(* Claims about build_paths (SpecPaths).                                   *)
(***************************************************************************)
Listed == {nodes[i].h : i \in 1..Len(nodes)}
NodeAt(h) == nodes[CHOOSE i \in 1..Len(nodes) : nodes[i].h = h]
Called == built.kind # "none"
EntriesOf(h) == {k \in 1..Len(built.entries) : built.entries[k].h = h}

\* Whether following parents from h ends, at the root or at a handle the
\* listing lacks, within fuel steps; Len(nodes) steps do when it ends at all.
RECURSIVE ChainEnds(_, _)
ChainEnds(h, fuel) ==
    IF h = root \/ h \notin Listed THEN TRUE
    ELSE IF fuel = 0 THEN FALSE
    ELSE ChainEnds(NodeAt(h).p, fuel - 1)
Acyclic == \A i \in 1..Len(nodes) : ChainEnds(nodes[i].h, Len(nodes))

\* Where the chain of parents of h ends.
RECURSIVE ChainTop(_, _)
ChainTop(h, fuel) ==
    IF h = root \/ h \notin Listed \/ fuel = 0 THEN h
    ELSE ChainTop(NodeAt(h).p, fuel - 1)

\* The names from the topmost listed ancestor below the root down to h.
RECURSIVE NamesDownTo(_, _)
NamesDownTo(h, fuel) ==
    IF h = root \/ h \notin Listed \/ fuel = 0 THEN <<>>
    ELSE Append(NamesDownTo(NodeAt(h).p, fuel - 1), Format(NodeAt(h).name))

RECURSIVE JoinSlash(_)
JoinSlash(names) ==
    IF names = <<>> THEN ""
    ELSE IF Len(names) = 1 THEN names[1]
    ELSE JoinSlash(SubSeq(names, 1, Len(names) - 1)) \o "/" \o names[Len(names)]

\* The indices of the nodes other than the root, in input order.
RECURSIVE NonRoot(_)
NonRoot(n) ==
    IF n = 0 THEN <<>>
    ELSE IF nodes[n].h = root THEN NonRoot(n - 1)
    ELSE Append(NonRoot(n - 1), n)

WellFormed ==
    \A i \in 1..Len(nodes) :
        /\ nodes[i].name.t = "str" /\ nodes[i].name.s # ""
        /\ ChainTop(nodes[i].h, Len(nodes)) = root

\* C6: for a listing of unique handles in which every node's chain of
\* parents reaches the root and every name is a non-empty string,
\* build_paths yields exactly one entry per node other than the root, in
\* input order, whose path is the names of the node's ancestors below the
\* root and then its own name, joined by "/", and whose handle, type and
\* size are the node's.
C6_PathsOfWellFormedListing ==
    Called /\ WellFormed =>
        LET want == NonRoot(Len(nodes)) IN
        /\ built.kind = "return"
        /\ Len(built.entries) = Len(want)
        /\ \A k \in 1..Len(want) :
            built.entries[k] =
                [h |-> nodes[want[k]].h,
                 path |-> JoinSlash(NamesDownTo(nodes[want[k]].h, Len(nodes))),
                 type |-> nodes[want[k]].type,
                 size |-> nodes[want[k]].size]

\* C6's case: root -> A -> B, the root first in the listing: "a" for A and
\* "a/b" for B, the root left out.
C6_Witness ==
    /\ built.kind = "return"
    /\ Len(nodes) = 3
    /\ nodes[1].h = root
    /\ nodes[2].h = "A" /\ nodes[2].p = root /\ nodes[2].name = PyStr("a")
    /\ nodes[3].h = "B" /\ nodes[3].p = "A" /\ nodes[3].name = PyStr("b")
    /\ Len(built.entries) = 2
    /\ built.entries[1].path = "a"
    /\ built.entries[2].path = "a/b"

\* C7: build_paths leaves out the root node and no other: for every listing
\* whose parent links form no cycle, whatever the names (empty and missing
\* ones included), a node is absent from the output if and only if its
\* handle is the root handle.
C7_OnlyRootExcluded ==
    Called /\ Acyclic =>
        /\ built.kind = "return"
        /\ \A i \in 1..Len(nodes) :
            EntriesOf(nodes[i].h) = {} <=> nodes[i].h = root

\* A node other than the root whose parent handle no node of the listing has.
IsOrphan(i) ==
    /\ nodes[i].h # root
    /\ nodes[i].p # root
    /\ nodes[i].p \notin Listed

\* C8: a node other than the root whose parent handle is absent from the
\* listing is neither an error nor left out: its path is exactly its own
\* name, and the path of every descendant starts at the orphan's name (the
\* orphan's name, then the names in between, joined by "/").
C8_OrphanKeepsOwnName ==
    Called /\ Acyclic =>
        \A i \in 1..Len(nodes) : IsOrphan(i) =>
            /\ built.kind = "return"
            /\ nodes[i].name.t = "str"
            /\ \E k \in EntriesOf(nodes[i].h) :
                  built.entries[k].path = nodes[i].name.s
            /\ \A j \in 1..Len(nodes) :
                  ChainTop(nodes[j].h, Len(nodes)) = nodes[i].p =>
                      \E k \in EntriesOf(nodes[j].h) :
                          built.entries[k].path =
                              JoinSlash(NamesDownTo(nodes[j].h, Len(nodes)))

\* C10: build_paths ends with a result for every finite listing, one whose
\* parent handles form a cycle off the root included (A's parent B and B's
\* parent A, or a node that is its own parent): resolution does not recurse
\* without bound, and the nodes of the cycle are left out of the output.
C10_TerminatesOnCycles ==
    Called =>
        /\ built.kind = "return"
        /\ \A i \in 1..Len(nodes) :
            ~ChainEnds(nodes[i].h, Len(nodes)) => EntriesOf(nodes[i].h) = {}

(***************************************************************************)
(* Claims about decrypt_node (SpecKey).                                    *)
(***************************************************************************)
\* What follows the last ':' of the key field.
AfterLastColon(k) ==
    LET colons == {i \in 1..Len(k) : k[i] = ColonChar}
        last == IF colons = {} THEN 0
                ELSE CHOOSE i \in colons : \A j \in colons : j <= i
    IN  SubSeq(k, last + 1, Len(k))
\* The words the unwrap of the last segment gives.
Unwrapped ==
    decrypt_key(base64_to_a32(AfterLastColon(node.k)).words, shared_key).words
IsWord32(w) == DOMAIN w = 1..4 /\ \A i \in 1..4 : w[i] \in 0..255
BitOf(x, b) == (x \div Pow2(b)) % 2
IsXorOf(w, x, y) ==
    \A i \in 1..4 : \A b \in 0..7 :
        BitOf(w[i], b) = (IF BitOf(x[i], b) = BitOf(y[i], b) THEN 0 ELSE 1)

\* C9: the key decrypt_node decrypts a node's attributes with is always
\* exactly four 32-bit words: the key field is split on ':' and only the
\* last segment is unwrapped; for type 0 (file) the eight-word unwrap result
\* is folded to result[i] XOR result[i+4] for i in 0..3, each within 32
\* bits; for type 1 (folder) the four-word unwrap result is used unchanged.
C9_AttributeKeyIsFourWords ==
    decrypted.used =>
        /\ Len(decrypted.aes_key) = 4
        /\ \A i \in 1..4 : IsWord32(decrypted.aes_key[i])
        /\ node.t = 0 =>
            /\ Len(Unwrapped) >= 8
            /\ \A i \in 1..4 :
                IsXorOf(decrypted.aes_key[i], Unwrapped[i], Unwrapped[i + 4])
        /\ node.t = 1 /\ Len(Unwrapped) = 4 =>
            \A i \in 1..4 : decrypted.aes_key[i] = Unwrapped[i]

\* C9's case: a file node whose key field has an owner segment before the
\* ':' and whose last segment unwraps to eight words; the folded key is not
\* the first half of the unwrap result.
C9_Witness ==
    /\ decrypted.used
    /\ node.t = 0
    /\ \E i \in 1..Len(node.k) : node.k[i] = ColonChar
    /\ Len(Unwrapped) = 8
    /\ \E i \in 1..4 : decrypted.aes_key[i] # Unwrapped[i]

====
